---- MODULE Spec2Model ----
(***************************************************************************)
(* Model of the weather client (main.go): the fetch / decode / format /    *)
(* print pipeline in its refactored, minimal, original and HTTP variants.  *)
(*                                                                         *)
(* Strings that the program trims or looks up are sequences of tokens      *)
(* (a word, or one white-space character).  Floating point values are      *)
(* integers counting tenths.  Instants are integers counting clock ticks,  *)
(* TicksPerSec ticks to the second, so that the clock is finer than the    *)
(* whole-second epoch timestamps of the API.                               *)
(***************************************************************************)
EXTENDS Integers, Sequences, FiniteSets, TLC

\* ---------------------------------------------------------------- bounds
MaxHours == 2
TicksPerSec == 2
MaxCalls == 2

\* ------------------------------------------------------- strings, emojis
WhiteSpace == {" ", "\t"}

RECURSIVE TrimLeft(_, _)
TrimLeft(s, cutset) ==
    IF s # <<>> /\ Head(s) \in cutset THEN TrimLeft(Tail(s), cutset) ELSE s

RECURSIVE TrimRight(_, _)
TrimRight(s, cutset) ==
    IF s # <<>> /\ s[Len(s)] \in cutset
    THEN TrimRight(SubSeq(s, 1, Len(s) - 1), cutset)
    ELSE s

\* strings.Trim(s, cutset)
Trim(s, cutset) == TrimRight(TrimLeft(s, cutset), cutset)

\* strings.TrimSpace(s)
TrimSpace(s) == Trim(s, WhiteSpace)

emojis ==
    (<<"Clear">> :> "Sun") @@
    (<<"Sunny">> :> "Sun") @@
    (<<"Patchy", " ", "rain">> :> "CloudWithRain") @@
    (<<"Partly", " ", "cloudy">> :> "SunBehindCloud") @@
    (<<"Cloudy">> :> "Cloud") @@
    (<<"Patchy", " ", "rain", " ", "nearby">> :> "CloudWithRain") @@
    (<<"Rainy">> :> "CloudWithRain")

IsSimpleCondition(category) ==
    category \in { <<"Sunny">>, <<"Patchy", " ", "rain">>,
                   <<"Partly", " ", "cloudy">>, <<"Cloudy">>, <<"Rainy">>,
                   <<"Patchy", " ", "rain", " ", "nearby">>, <<"Clear">> }

\* a mutation of the lookup: the condition is looked up as it came
GetWeatherEmojiUntrimmed(condition) ==
    IF IsSimpleCondition(condition) THEN emojis[condition] ELSE "Cloud"

GetWeatherEmoji(condition) ==
    LET c == TrimSpace(condition)
    IN  IF IsSimpleCondition(c) THEN emojis[c] ELSE "Cloud"

\* ------------------------------------------------------ number rendering
\* fmt verb %.0f on a value given in tenths: nearest integer, ties to even
FmtF0(x) ==
    LET q == x \div 10
        r == x % 10
    IN  IF r > 5 \/ (r = 5 /\ q % 2 = 1) THEN q + 1 ELSE q

\* fmt verb %.1f on a value given in tenths: integer part and one decimal
FmtF1(x) == <<x \div 10, x % 10>>

\* ------------------------------------------------------------------ time
\* time.Unix(sec, 0) as an instant in ticks
TimeUnix(sec) == sec * TicksPerSec

\* t.Before(u)
Before(t, u) == t < u

\* time.Unix(sec, 0).Local().Format("15:04") in a zone offset seconds east
FormatHHMM(sec, offset) ==
    <<((sec + offset) \div 3600) % 24, ((sec + offset) \div 60) % 60>>

\* -------------------------------------------------------------- the data
HourSamples ==
    { [TimeEpoch |-> 3600, TempC |-> 150, Condition |-> [Text |-> <<"Cloudy">>],
       ChanceOfRain |-> 100],
      [TimeEpoch |-> 3660, TempC |-> 185, Condition |-> [Text |-> <<" ", "Sunny">>],
       ChanceOfRain |-> 495],
      [TimeEpoch |-> 7200, TempC |-> 160, Condition |-> [Text |-> <<"Rainy", "\t">>],
       ChanceOfRain |-> 600],
      [TimeEpoch |-> 3600, TempC |-> 155, Condition |-> [Text |-> <<"Mist">>],
       ChanceOfRain |-> 500] }

HourSeqs == UNION { [1..n -> HourSamples] : n \in 0..MaxHours }

ForecastdaySeqs == {<<>>} \cup { <<[Hour |-> hs]>> : hs \in HourSeqs }

HeaderSamples ==
    { [Location |-> [Name |-> "Casablanca", Country |-> "Morocco"],
       Current |-> [TempC |-> 220,
                    Condition |-> [Text |-> <<"Partly", " ", "cloudy">>]]],
      [Location |-> [Name |-> "TestCity", Country |-> "TestCountry"],
       Current |-> [TempC |-> 255,
                    Condition |-> [Text |-> <<" ", "Sunny", " ">>]]] }

\* the decoded values of type Weather
WeatherValues ==
    { [Location |-> h.Location, Current |-> h.Current,
       Forecast |-> [Forecastday |-> fd]] :
         h \in HeaderSamples, fd \in ForecastdaySeqs }

ZoneOffsets == {3600}

\* readings of time.Now(): on every whole second an entry may carry, and
\* one tick after it
ClockValues ==
    { TimeUnix(h.TimeEpoch) + d : h \in HourSamples, d \in {0, 1} }

Variants == {"refactored", "minimal", "original"}

\* ------------------------------------------------------------ formatting
\* refactored FormatCurrentWeather: "%s, %s: %.0f°C, %s %s"
FormatCurrentWeather(wd) ==
    LET condition == TrimSpace(wd.Current.Condition.Text)
    IN  [name |-> wd.Location.Name, country |-> wd.Location.Country,
         temp |-> FmtF0(wd.Current.TempC), condition |-> condition,
         emoji |-> GetWeatherEmoji(condition)]

\* minimal FormatCurrentWeather: "%s, %s: %.1f°C, %s"
FormatCurrentWeatherMin(wd) ==
    [name |-> wd.Location.Name, country |-> wd.Location.Country,
     temp |-> FmtF1(wd.Current.TempC),
     condition |-> wd.Current.Condition.Text]

\* refactored hourly line: "%s - %.0f°C, %.0f%%, %s %s"
FormatHourLine(hour, offset) ==
    LET condition == TrimSpace(hour.Condition.Text)
    IN  [time |-> FormatHHMM(hour.TimeEpoch, offset),
         temp |-> FmtF0(hour.TempC), rain |-> FmtF0(hour.ChanceOfRain),
         condition |-> condition, emoji |-> GetWeatherEmoji(condition)]

\* minimal hourly line: "%s - %.1f°C, %.0f%% - %s"
FormatHourLineMin(hour, offset) ==
    [time |-> FormatHHMM(hour.TimeEpoch, offset),
     temp |-> FmtF1(hour.TempC), rain |-> FmtF0(hour.ChanceOfRain),
     condition |-> hour.Condition.Text]

\* original hourly message: "%s - %.0f C°, %.0f%%, %s %s\n", strings.Trim " "
FormatHourLineOrig(hour, offset) ==
    LET condition == Trim(hour.Condition.Text, {" "})
    IN  [time |-> FormatHHMM(hour.TimeEpoch, offset),
         temp |-> FmtF0(hour.TempC), rain |-> FmtF0(hour.ChanceOfRain),
         condition |-> condition,
         emoji |-> IF IsSimpleCondition(condition)
                   THEN emojis[condition] ELSE "Cloud"]

\* the rain threshold of the highlight, in tenths of a percent
HighRain(hour) == hour.ChanceOfRain >= 500

\* ================================================================ state
VARIABLES
    variant,      \* which program of main.go runs
    loc,          \* zone offset of time.Local
    weather,      \* the decoded snapshot the calls are given
    clock,        \* what time.Now() reads at this moment
    pc,           \* position of the running call, "idle" between calls
    currentTime,  \* local currentTime of the running pass
    idx,          \* position of the range loop over hours (1-based)
    forecasts,    \* local forecasts of FormatHourlyForecast
    hourIndex,    \* local hourIndex of PrintForecast
    lines,        \* argument forecasts of the running PrintForecast
    w,            \* the sink of the running PrintForecast / main
    cutoffs,      \* per entry of the running pass: the instant it was compared against
    calledAt,     \* what the clock read when the running call was entered
    returned      \* the calls that have returned, oldest first

fmtVars == <<variant, loc, weather, clock, pc, currentTime, idx, forecasts,
             hourIndex, lines, w, cutoffs, calledAt, returned>>

VARIABLES
    ws,           \* the WeatherService: APIKey and Client
    clientArg,    \* the client NewWeatherService was given
    fpc,          \* position of the running FetchWeatherData, "idle" between calls
    city,         \* its argument
    resp,         \* the response Client.Get returned
    body,         \* what io.ReadAll returned
    requests,     \* every GET issued so far, oldest first
    ncalls,       \* calls of FetchWeatherData entered so far
    ret           \* what the last finished call returned, and what it went through

fetchVars == <<ws, clientArg, fpc, city, resp, body, requests, ncalls, ret>>

VARIABLES
    cond,         \* the argument GetWeatherEmoji is called with
    glyph         \* what it returned, "" before it has

emojiVars == <<cond, glyph>>

VARIABLES
    osArgs,       \* os.Args of the command-line run
    mpc,          \* position of main
    printed,      \* what the process has printed, stdout and stderr
    exit,         \* its exit status, NoExit while it runs
    handlers      \* per /weather request: the locals of its weatherHandler

runVars == <<osArgs, mpc, printed, exit, handlers>>

vars == <<fmtVars, fetchVars, emojiVars, runVars>>

\* a nil pointer, a nil error; a pointer to v
Nil == [nil |-> TRUE]

Ptr(v) == [nil |-> FALSE, val |-> v]

\* fmt.Errorf(format, args...)
Errorf(format, args) == [nil |-> FALSE, format |-> format, args |-> args]

\* &http.Client{Timeout: seconds}; 0 means no timeout
HttpClient(seconds) == [nil |-> FALSE, Timeout |-> seconds]

DefaultTimeoutSeconds == 10

\* a mutation of the constructor: the default client has no timeout
NewWeatherServiceNoTimeout(v, apiKey, client) ==
    [APIKey |-> apiKey,
     Client |-> IF v = "refactored" /\ client.nil THEN HttpClient(0) ELSE client]

\* NewWeatherService of program v
NewWeatherService(v, apiKey, client) ==
    [APIKey |-> apiKey,
     Client |-> IF v = "refactored" /\ client.nil
                THEN HttpClient(DefaultTimeoutSeconds)
                ELSE client]

\* no fetch has been made
FetchQuiet ==
    /\ clientArg = Nil
    /\ ws = NewWeatherService("refactored", "test-key", Nil)
    /\ fpc = "idle"
    /\ city = ""
    /\ resp = Nil
    /\ body = Nil
    /\ requests = <<>>
    /\ ncalls = 0
    /\ ret = Nil

NoTime == 0 - 1

NoExit == 0 - 1

\* GetWeatherEmoji is not being called
EmojiQuiet ==
    /\ cond = <<>>
    /\ glyph = ""

\* no program is run from its entry point
RunQuiet ==
    /\ osArgs = <<>>
    /\ mpc = "off"
    /\ printed = <<>>
    /\ exit = NoExit
    /\ handlers = <<>>

\* the first forecast day's hours (only read when the day list is non-empty)
Hours == weather.Forecast.Forecastday[1].Hour

\* a formatted line is kept as [text, from]: its text and, as an annotation,
\* the index of the hourly entry it was formatted from

InitFmt ==
    /\ variant \in Variants
    /\ loc \in ZoneOffsets
    /\ weather \in WeatherValues
    /\ clock \in ClockValues
    /\ pc = "idle"
    /\ currentTime = NoTime
    /\ idx = 0
    /\ forecasts = <<>>
    /\ hourIndex = 0
    /\ lines = <<>>
    /\ w = <<>>
    /\ cutoffs = <<>>
    /\ calledAt = NoTime
    /\ returned = <<>>
    /\ FetchQuiet
    /\ EmojiQuiet
    /\ RunQuiet

\* time passes at any moment, also in the middle of a pass (the wall clock
\* is taken to move forward only)
Tick ==
    /\ \E t \in ClockValues : t > clock /\ clock' = t
    /\ UNCHANGED <<variant, loc, weather, pc, currentTime, idx, forecasts,
                   hourIndex, lines, w, cutoffs, calledAt, returned>>
    /\ UNCHANGED fetchVars
    /\ UNCHANGED <<emojiVars, runVars>>

CanCall == pc = "idle" /\ Len(returned) < MaxCalls

\* ---- FormatCurrentWeather, refactored and minimal
CallFormatCurrentWeather ==
    /\ CanCall
    /\ variant \in {"refactored", "minimal"}
    /\ returned' = Append(returned,
         [fn |-> "FormatCurrentWeather",
          out |-> IF variant = "refactored"
                  THEN FormatCurrentWeather(weather)
                  ELSE FormatCurrentWeatherMin(weather)])
    /\ UNCHANGED <<variant, loc, weather, clock, pc, currentTime, idx,
                   forecasts, hourIndex, lines, w, cutoffs, calledAt>>
    /\ UNCHANGED fetchVars
    /\ UNCHANGED <<emojiVars, runVars>>

\* ---- FormatHourlyForecast, refactored (main.go 136-167)
\* mutations of the skip test: an entry on the cutoff is dropped too; no
\* entry is ever dropped
SkipsHourInclusive(hour, now) == TimeUnix(hour.TimeEpoch) <= now

SkipsHourNever(hour, now) == FALSE

\* a mutation of the skip test: the instants are compared as whole Unix
\* seconds, the fraction of now is dropped
SkipsHourUnixSeconds(hour, now) == hour.TimeEpoch < now \div TicksPerSec

\* whether the loop body skips the entry (line 148)
SkipsHour(hour, now) == Before(TimeUnix(hour.TimeEpoch), now)

FormatHourlyEnter ==
    /\ CanCall
    /\ variant = "refactored"
    /\ IF Len(weather.Forecast.Forecastday) = 0
       THEN /\ returned' = Append(returned,
                 [fn |-> "FormatHourlyForecast", now |-> clock, out |-> <<>>])
            /\ UNCHANGED <<pc, currentTime, idx, forecasts, cutoffs>>
       ELSE /\ forecasts' = <<>>
            /\ currentTime' = clock
            /\ idx' = 1
            /\ cutoffs' = <<>>
            /\ pc' = "format"
            /\ UNCHANGED returned
    /\ UNCHANGED <<variant, loc, weather, clock, hourIndex, lines, w,
                   calledAt>>
    /\ UNCHANGED fetchVars
    /\ UNCHANGED <<emojiVars, runVars>>

\* a mutation of the loop body: the entries that pass are also compacted
\* to the front of the hours slice, which is the snapshot's own array
FormatHourlyIterInPlace ==
    /\ pc = "format"
    /\ idx <= Len(Hours)
    /\ cutoffs' = Append(cutoffs, currentTime)
    /\ IF SkipsHour(Hours[idx], currentTime)
       THEN UNCHANGED <<forecasts, weather>>
       ELSE /\ forecasts' = Append(forecasts,
                   [text |-> FormatHourLine(Hours[idx], loc), from |-> idx])
            /\ weather' = [weather EXCEPT
                   !.Forecast.Forecastday[1].Hour[Len(forecasts) + 1] =
                       Hours[idx]]
    /\ idx' = idx + 1
    /\ UNCHANGED <<variant, loc, clock, pc, currentTime, hourIndex,
                   lines, w, calledAt, returned>>
    /\ UNCHANGED fetchVars
    /\ UNCHANGED <<emojiVars, runVars>>

FormatHourlyIter ==
    /\ pc = "format"
    /\ idx <= Len(Hours)
    /\ cutoffs' = Append(cutoffs, currentTime)
    /\ IF SkipsHour(Hours[idx], currentTime)
       THEN UNCHANGED forecasts
       ELSE forecasts' = Append(forecasts,
              [text |-> FormatHourLine(Hours[idx], loc), from |-> idx])
    /\ idx' = idx + 1
    /\ UNCHANGED <<variant, loc, weather, clock, pc, currentTime, hourIndex,
                   lines, w, calledAt, returned>>
    /\ UNCHANGED fetchVars
    /\ UNCHANGED <<emojiVars, runVars>>

FormatHourlyReturn ==
    /\ pc = "format"
    /\ idx > Len(Hours)
    /\ returned' = Append(returned,
         [fn |-> "FormatHourlyForecast", now |-> currentTime,
          out |-> forecasts])
    /\ pc' = "idle"
    /\ currentTime' = NoTime
    /\ idx' = 0
    /\ forecasts' = <<>>
    /\ cutoffs' = <<>>
    /\ UNCHANGED <<variant, loc, weather, clock, hourIndex, lines, w,
                   calledAt>>
    /\ UNCHANGED fetchVars
    /\ UNCHANGED <<emojiVars, runVars>>

\* ---- FormatHourlyForecast, minimal (main.go 318-343): no clock is read
FormatHourlyMinEnter ==
    /\ CanCall
    /\ variant = "minimal"
    /\ IF Len(weather.Forecast.Forecastday) = 0
       THEN /\ returned' = Append(returned,
                 [fn |-> "FormatHourlyForecast", now |-> clock, out |-> <<>>])
            /\ UNCHANGED <<pc, idx, forecasts, calledAt>>
       ELSE /\ forecasts' = <<>>
            /\ idx' = 1
            /\ calledAt' = clock
            /\ pc' = "formatMin"
            /\ UNCHANGED returned
    /\ UNCHANGED <<variant, loc, weather, clock, currentTime, hourIndex,
                   lines, w, cutoffs>>
    /\ UNCHANGED fetchVars
    /\ UNCHANGED <<emojiVars, runVars>>

FormatHourlyMinIter ==
    /\ pc = "formatMin"
    /\ idx <= Len(Hours)
    /\ forecasts' = Append(forecasts,
              [text |-> FormatHourLineMin(Hours[idx], loc), from |-> idx])
    /\ idx' = idx + 1
    /\ UNCHANGED <<variant, loc, weather, clock, pc, currentTime, hourIndex,
                   lines, w, cutoffs, calledAt, returned>>
    /\ UNCHANGED fetchVars
    /\ UNCHANGED <<emojiVars, runVars>>

FormatHourlyMinReturn ==
    /\ pc = "formatMin"
    /\ idx > Len(Hours)
    /\ returned' = Append(returned,
         [fn |-> "FormatHourlyForecast", now |-> calledAt,
          out |-> forecasts])
    /\ pc' = "idle"
    /\ idx' = 0
    /\ forecasts' = <<>>
    /\ calledAt' = NoTime
    /\ UNCHANGED <<variant, loc, weather, clock, currentTime, hourIndex,
                   lines, w, cutoffs>>
    /\ UNCHANGED fetchVars
    /\ UNCHANGED <<emojiVars, runVars>>

\* ---- PrintForecast, refactored (main.go 170-194)
\* the lines a returned FormatHourlyForecast call produced from the snapshot
FormattedLists ==
    { returned[k].out : k \in { j \in DOMAIN returned :
                                  returned[j].fn = "FormatHourlyForecast" } }

\* lines 170-177, 346-353: the call is entered with the lines ls; on an
\* empty day list it returns at once, otherwise the loop starts at pc position
PrintForecastBegin(ls, position) ==
    /\ IF Len(weather.Forecast.Forecastday) = 0
       THEN /\ returned' = Append(returned,
                 [fn |-> "PrintForecast", now |-> clock, lines |-> ls,
                  w |-> <<>>])
            /\ UNCHANGED <<pc, currentTime, idx, hourIndex, lines, w,
                           cutoffs>>
       ELSE /\ lines' = ls
            /\ w' = <<>>
            /\ currentTime' = clock
            /\ hourIndex' = 0
            /\ idx' = 1
            /\ cutoffs' = <<>>
            /\ pc' = position
            /\ UNCHANGED returned
    /\ UNCHANGED <<variant, loc, weather, clock, forecasts, calledAt>>
    /\ UNCHANGED fetchVars
    /\ UNCHANGED <<emojiVars, runVars>>

PrintForecastEnter ==
    /\ CanCall
    /\ variant = "refactored"
    /\ \E ls \in FormattedLists : PrintForecastBegin(ls, "print")

\* color.New(color.FgRed).Fprintln / fmt.Fprintln of forecasts[hourIndex]
Fprintln(sink, line, red) == Append(sink, [line |-> line, red |-> red])

\* a mutation of the loop body: the line is picked by the position of the
\* entry in hours, not by the count of lines written
PrintForecastIterByEntry ==
    /\ pc = "print"
    /\ idx <= Len(Hours)
    /\ cutoffs' = Append(cutoffs, currentTime)
    /\ IF SkipsHour(Hours[idx], currentTime)
       THEN UNCHANGED <<w, hourIndex>>
       ELSE IF idx <= Len(lines)
            THEN /\ w' = Fprintln(w, lines[idx], HighRain(Hours[idx]))
                 /\ hourIndex' = hourIndex + 1
            ELSE UNCHANGED <<w, hourIndex>>
    /\ idx' = idx + 1
    /\ UNCHANGED <<variant, loc, weather, clock, pc, currentTime, forecasts,
                   lines, calledAt, returned>>
    /\ UNCHANGED fetchVars
    /\ UNCHANGED <<emojiVars, runVars>>

PrintForecastIter ==
    /\ pc = "print"
    /\ idx <= Len(Hours)
    /\ cutoffs' = Append(cutoffs, currentTime)
    /\ IF SkipsHour(Hours[idx], currentTime)
       THEN UNCHANGED <<w, hourIndex>>
       ELSE IF hourIndex < Len(lines)
            THEN /\ w' = Fprintln(w, lines[hourIndex + 1],
                                  HighRain(Hours[idx]))
                 /\ hourIndex' = hourIndex + 1
            ELSE UNCHANGED <<w, hourIndex>>
    /\ idx' = idx + 1
    /\ UNCHANGED <<variant, loc, weather, clock, pc, currentTime, forecasts,
                   lines, calledAt, returned>>
    /\ UNCHANGED fetchVars
    /\ UNCHANGED <<emojiVars, runVars>>

PrintForecastReturn ==
    /\ pc = "print"
    /\ idx > Len(Hours)
    /\ returned' = Append(returned,
         [fn |-> "PrintForecast", now |-> currentTime, lines |-> lines,
          w |-> w])
    /\ pc' = "idle"
    /\ currentTime' = NoTime
    /\ idx' = 0
    /\ hourIndex' = 0
    /\ lines' = <<>>
    /\ w' = <<>>
    /\ cutoffs' = <<>>
    /\ UNCHANGED <<variant, loc, weather, clock, forecasts, calledAt>>
    /\ UNCHANGED fetchVars
    /\ UNCHANGED <<emojiVars, runVars>>

\* ---- PrintForecast, minimal (main.go 346-366): fmt.Println, no colour
PrintForecastMinEnter ==
    /\ CanCall
    /\ variant = "minimal"
    /\ \E ls \in FormattedLists : PrintForecastBegin(ls, "printMin")

PrintForecastMinIter ==
    /\ pc = "printMin"
    /\ idx <= Len(Hours)
    /\ cutoffs' = Append(cutoffs, currentTime)
    /\ IF SkipsHour(Hours[idx], currentTime)
       THEN UNCHANGED <<w, hourIndex>>
       ELSE IF hourIndex < Len(lines)
            THEN /\ w' = Fprintln(w, lines[hourIndex + 1], FALSE)
                 /\ hourIndex' = hourIndex + 1
            ELSE UNCHANGED <<w, hourIndex>>
    /\ idx' = idx + 1
    /\ UNCHANGED <<variant, loc, weather, clock, pc, currentTime, forecasts,
                   lines, calledAt, returned>>
    /\ UNCHANGED fetchVars
    /\ UNCHANGED <<emojiVars, runVars>>

PrintForecastMinReturn ==
    /\ pc = "printMin"
    /\ idx > Len(Hours)
    /\ returned' = Append(returned,
         [fn |-> "PrintForecast", now |-> currentTime, lines |-> lines,
          w |-> w])
    /\ pc' = "idle"
    /\ currentTime' = NoTime
    /\ idx' = 0
    /\ hourIndex' = 0
    /\ lines' = <<>>
    /\ w' = <<>>
    /\ cutoffs' = <<>>
    /\ UNCHANGED <<variant, loc, weather, clock, forecasts, calledAt>>
    /\ UNCHANGED fetchVars
    /\ UNCHANGED <<emojiVars, runVars>>

\* ---- main, original (main.go 494-538): one pass that filters and prints
\* original current line: "%s, %s: %.0f C, %s %s\n", strings.Trim " "
FormatCurrentOrig(wd) ==
    LET condition == Trim(wd.Current.Condition.Text, {" "})
    IN  [name |-> wd.Location.Name, country |-> wd.Location.Country,
         temp |-> FmtF0(wd.Current.TempC), condition |-> condition,
         emoji |-> IF IsSimpleCondition(condition)
                   THEN emojis[condition] ELSE "Cloud"]

OriginalMainEnter ==
    /\ CanCall
    /\ variant = "original"
    /\ IF Len(weather.Forecast.Forecastday) = 0
       THEN \* line 494 indexes Forecastday[0]: run-time panic
            /\ returned' = Append(returned,
                 [fn |-> "main", panic |-> TRUE, w |-> <<>>])
            /\ UNCHANGED <<pc, idx, w, cutoffs>>
       ELSE /\ w' = Fprintln(<<>>,
                      [text |-> FormatCurrentOrig(weather), from |-> 0], FALSE)
            /\ idx' = 1
            /\ cutoffs' = <<>>
            /\ pc' = "original"
            /\ UNCHANGED returned
    /\ UNCHANGED <<variant, loc, weather, clock, currentTime, forecasts,
                   hourIndex, lines, calledAt>>
    /\ UNCHANGED fetchVars
    /\ UNCHANGED <<emojiVars, runVars>>

\* one turn of the loop: line 513 reads time.Now() for this entry
OriginalMainIter ==
    /\ pc = "original"
    /\ idx <= Len(Hours)
    /\ cutoffs' = Append(cutoffs, clock)
    /\ IF SkipsHour(Hours[idx], clock)
       THEN UNCHANGED w
       ELSE w' = Fprintln(w,
                   [text |-> FormatHourLineOrig(Hours[idx], loc), from |-> idx],
                   HighRain(Hours[idx]))
    /\ idx' = idx + 1
    /\ UNCHANGED <<variant, loc, weather, clock, pc, currentTime, forecasts,
                   hourIndex, lines, calledAt, returned>>
    /\ UNCHANGED fetchVars
    /\ UNCHANGED <<emojiVars, runVars>>

OriginalMainExit ==
    /\ pc = "original"
    /\ idx > Len(Hours)
    /\ returned' = Append(returned, [fn |-> "main", panic |-> FALSE, w |-> w])
    /\ pc' = "idle"
    /\ idx' = 0
    /\ w' = <<>>
    /\ cutoffs' = <<>>
    /\ UNCHANGED <<variant, loc, weather, clock, currentTime, forecasts,
                   hourIndex, lines, calledAt>>
    /\ UNCHANGED fetchVars
    /\ UNCHANGED <<emojiVars, runVars>>

NextFmt ==
    \/ Tick
    \/ CallFormatCurrentWeather
    \/ FormatHourlyEnter
    \/ FormatHourlyIter
    \/ FormatHourlyReturn
    \/ FormatHourlyMinEnter
    \/ FormatHourlyMinIter
    \/ FormatHourlyMinReturn
    \/ PrintForecastEnter
    \/ PrintForecastIter
    \/ PrintForecastReturn
    \/ PrintForecastMinEnter
    \/ PrintForecastMinIter
    \/ PrintForecastMinReturn
    \/ OriginalMainEnter
    \/ OriginalMainIter
    \/ OriginalMainExit

SpecFmt == InitFmt /\ [][NextFmt]_vars

\* ---- PrintForecast alone, called with lines of any origin
MaxLines == 3

\* lines that were formatted from no entry of the snapshot
GivenLines == { [text |-> [given |-> n], from |-> 0] : n \in {"a", "b"} }

GivenLists == UNION { [1..n -> GivenLines] : n \in 0..MaxLines }

InitPrint ==
    /\ InitFmt
    /\ variant \in {"refactored", "minimal"}

PrintForecastGivenEnter ==
    /\ CanCall
    /\ returned = <<>>
    /\ variant = "refactored"
    /\ \E ls \in GivenLists : PrintForecastBegin(ls, "print")

PrintForecastMinGivenEnter ==
    /\ CanCall
    /\ returned = <<>>
    /\ variant = "minimal"
    /\ \E ls \in GivenLists : PrintForecastBegin(ls, "printMin")

NextPrint ==
    \/ Tick
    \/ PrintForecastGivenEnter
    \/ PrintForecastIter
    \/ PrintForecastReturn
    \/ PrintForecastMinGivenEnter
    \/ PrintForecastMinIter
    \/ PrintForecastMinReturn

SpecPrint == InitPrint /\ [][NextPrint]_vars

\* ================================================== claims C1 .. C5
\* the returned calls of one function
ReturnsOf(fn) == { k \in DOMAIN returned : returned[k].fn = fn }

HasDay == Len(weather.Forecast.Forecastday) > 0

DayHours == IF HasDay THEN Hours ELSE <<>>

\* an entry's instant is not strictly before now
Upcoming(hour, now) == TimeUnix(hour.TimeEpoch) >= now

\* the indices, in order, of the entries of hs from i on that are upcoming
RECURSIVE IndicesFrom(_, _, _)
IndicesFrom(hs, i, now) ==
    IF i > Len(hs) THEN <<>>
    ELSE IF Upcoming(hs[i], now)
         THEN <<i>> \o IndicesFrom(hs, i + 1, now)
         ELSE IndicesFrom(hs, i + 1, now)

UpcomingIndices(now) == IndicesFrom(DayHours, 1, now)

AllIndices == [i \in 1..Len(DayHours) |-> i]

Froms(ls) == [k \in DOMAIN ls |-> ls[k].from]

C2_HighlightMatchesSource ==
    variant = "refactored" =>
      \A k \in ReturnsOf("PrintForecast") :
        \A j \in DOMAIN returned[k].w :
            returned[k].w[j].red = HighRain(DayHours[returned[k].w[j].line.from])

\* C3 as stated: given the lines FormatHourlyForecast produced from the same
\* snapshot, with a non-empty day list, PrintForecast writes every line
\* exactly once, in order: the written lines are the given lines.
C3_EveryLineWrittenOnce ==
    HasDay =>
      \A k \in ReturnsOf("PrintForecast") :
        [j \in DOMAIN returned[k].w |-> returned[k].w[j].line] = returned[k].lines

\* C4 as stated: all entries of one pass are compared against one cutoff.
C4_SingleCutoffPerPass ==
    \A i, j \in DOMAIN cutoffs : cutoffs[i] = cutoffs[j]

\* C5 as stated: two calls of FormatCurrentWeather, or of
\* FormatHourlyForecast, on the same snapshot return identical output.
C5_AsStated ==
    \A fn \in {"FormatCurrentWeather", "FormatHourlyForecast"} :
      \A j, k \in ReturnsOf(fn) : returned[j].out = returned[k].out

\* some entry's instant lies at or after the earlier and strictly before
\* the later of the two instants
EntryBetween(t1, t2) ==
    \E i \in DOMAIN DayHours :
        LET t == TimeUnix(DayHours[i].TimeEpoch)
        IN  \/ (t >= t1 /\ t < t2)
            \/ (t >= t2 /\ t < t1)

\* C5 amended: two calls of FormatCurrentWeather return identical output;
\* two calls of the minimal FormatHourlyForecast return identical output;
\* two calls of the refactored FormatHourlyForecast return identical output
\* exactly when no entry's instant lies between the two sampled nows (at or
\* after the earlier one and strictly before the later one).
C5_RepeatableUnlessEntryExpires ==
    /\ \A j, k \in ReturnsOf("FormatCurrentWeather") :
           returned[j].out = returned[k].out
    /\ \A j, k \in ReturnsOf("FormatHourlyForecast") :
           j < k =>
             IF variant = "refactored"
             THEN (returned[j].out = returned[k].out)
                    <=> ~EntryBetween(returned[j].now, returned[k].now)
             ELSE returned[j].out = returned[k].out

\* two refactored hourly calls at different clock readings that return the
\* same non-empty output although an earlier entry is already past
C5_Witness ==
    /\ variant = "refactored"
    /\ \E j, k \in ReturnsOf("FormatHourlyForecast") :
         /\ j < k
         /\ returned[j].now < returned[k].now
         /\ Len(returned[j].out) > 0
         /\ Len(returned[j].out) < Len(DayHours)
         /\ returned[j].out = returned[k].out

\* ============================================== FetchWeatherData
\* (main.go 93-117, 283-307, 598-622: the same steps in the refactored,
\* minimal and HTTP programs)
MaxFetches == 2

FetchVariants == {"refactored", "minimal", "http"}

Cities == {"TestCity", "InvalidCity"}

StatusCodes == {200, 201, 400, 500}

ZeroWeather ==
    [Location |-> [Name |-> "", Country |-> ""],
     Current |-> [TempC |-> 0, Condition |-> [Text |-> <<>>]],
     Forecast |-> [Forecastday |-> <<>>]]

\* what a well-formed body of the weather schema decodes to
SuccessWeather ==
    [Location |-> [Name |-> "TestCity", Country |-> "TestCountry"],
     Current |-> [TempC |-> 255, Condition |-> [Text |-> <<"Sunny">>]],
     Forecast |-> [Forecastday |-> <<[Hour |-> <<>>]>>]]

\* response bodies: JSON of the schema, the JSON object {}, text that is
\* no JSON, and JSON whose temp_c is a string
Bodies ==
    { [kind |-> "json", value |-> SuccessWeather],
      [kind |-> "emptyObject", value |-> ZeroWeather],
      [kind |-> "notJson", value |-> ZeroWeather],
      [kind |-> "wrongType",
       value |-> [SuccessWeather EXCEPT !.Current = ZeroWeather.Current]] }

\* json.Unmarshal(body, &weather): the error, and what weather holds after
JsonUnmarshal(b) ==
    CASE b.kind \in {"json", "emptyObject"} ->
           [err |-> Nil, weather |-> b.value]
      [] b.kind = "notJson" ->
           [err |-> Errorf("invalid character %q looking for beginning of value",
                           <<"i">>),
            weather |-> b.value]
      [] b.kind = "wrongType" ->
           [err |-> Errorf("json: cannot unmarshal %s into Go struct field %s",
                           <<"string", "temp_c">>),
            weather |-> b.value]

\* the clients the callers in the sources hand to NewWeatherService: nil
\* (refactored main), a client with no timeout (the tests), a client with
\* a 10 second timeout (minimal and HTTP main)
ClientArgs(v) ==
    IF v = "refactored"
    THEN {Nil, HttpClient(0)}
    ELSE {HttpClient(0), HttpClient(DefaultTimeoutSeconds)}

\* line 94: the request URL
Url(v, apiKey, c) ==
    [key |-> apiKey, q |-> c, days |-> 1,
     query |-> IF v = "refactored" THEN "&aqi=no&alerts=no" ELSE ""]

\* a mutation of the request: a URL already requested is not requested again
IssueGetCached(reqs, url) ==
    IF \E k \in DOMAIN reqs : reqs[k] = url THEN reqs ELSE Append(reqs, url)

\* line 96: ws.Client.Get(url) sends one GET
IssueGet(reqs, url) == Append(reqs, url)

\* a mutation of the status test: any status below 400 passes
StatusPassesBelow400(code) == code < 400

\* line 102: the status test the call goes on after
StatusPasses(code) == code = 200

\* a call's return value
Return(weatherPtr, err) == [weather |-> weatherPtr, err |-> err]

\* lines 97-99
TransportErrorReturn(v, cause) ==
    Return(Nil, Errorf(IF v = "refactored"
                       THEN "failed to fetch weather data: %w"
                       ELSE "failed to fetch data: %w", <<cause>>))

\* lines 102-104
StatusErrorReturn(code, c) ==
    Return(Nil, Errorf("API returned status %d for city %s", <<code, c>>))

\* lines 107-109
ReadErrorReturn(cause) ==
    Return(Nil, Errorf("failed to read response body: %w", <<cause>>))

\* a mutation of the decode step: the error of json.Unmarshal is dropped
DecodeReturnIgnoringError(b) == Return(Ptr(JsonUnmarshal(b).weather), Nil)

\* a mutation of the decode step: the snapshot comes back beside the error
DecodeReturnWithPartial(b) ==
    LET d == JsonUnmarshal(b)
    IN  IF ~d.err.nil
        THEN Return(Ptr(d.weather),
                    Errorf("failed to parse weather data: %w", <<d.err>>))
        ELSE Return(Ptr(d.weather), Nil)

\* lines 111-116
DecodeReturn(b) ==
    LET d == JsonUnmarshal(b)
    IN  IF ~d.err.nil
        THEN Return(Nil, Errorf("failed to parse weather data: %w", <<d.err>>))
        ELSE Return(Ptr(d.weather), Nil)

FmtQuiet ==
    /\ loc \in ZoneOffsets
    /\ weather = ZeroWeather
    /\ clock = TimeUnix(3600)
    /\ pc = "idle"
    /\ currentTime = NoTime
    /\ idx = 0
    /\ forecasts = <<>>
    /\ hourIndex = 0
    /\ lines = <<>>
    /\ w = <<>>
    /\ cutoffs = <<>>
    /\ calledAt = NoTime
    /\ returned = <<>>

InitFetch ==
    /\ variant \in FetchVariants
    /\ FmtQuiet
    /\ clientArg \in ClientArgs(variant)
    /\ ws = NewWeatherService(variant, "test-key", clientArg)
    /\ fpc = "idle"
    /\ city = ""
    /\ resp = Nil
    /\ body = Nil
    /\ requests = <<>>
    /\ ncalls = 0
    /\ ret = Nil
    /\ EmojiQuiet
    /\ RunQuiet

\* the call is over: record what it returned and what it went through
Finish(r, cause) ==
    /\ ret' = [nil |-> FALSE, city |-> city, weather |-> r.weather,
               err |-> r.err,
               resp |-> resp', body |-> body', ended |-> cause]
    /\ fpc' = "idle"

\* lines 93-96: build the URL and send the GET
FetchCall ==
    /\ fpc = "idle"
    /\ ncalls < MaxFetches
    /\ \E c \in Cities :
         /\ city' = c
         /\ requests' = IssueGet(requests, Url(variant, ws.APIKey, c))
    /\ ncalls' = ncalls + 1
    /\ resp' = Nil
    /\ body' = Nil
    /\ fpc' = "get"
    /\ UNCHANGED <<ws, clientArg, ret>>
    /\ UNCHANGED fmtVars
    /\ UNCHANGED <<emojiVars, runVars>>

\* Client.Get returns an error: DNS, connection
TransportFails ==
    /\ fpc = "get"
    /\ UNCHANGED <<resp, body>>
    /\ Finish(TransportErrorReturn(variant, "dial tcp: no such host"),
              "transport")
    /\ UNCHANGED <<ws, clientArg, city, requests, ncalls>>
    /\ UNCHANGED fmtVars
    /\ UNCHANGED <<emojiVars, runVars>>

\* Client.Timeout runs out before the response headers arrive
RequestTimesOut ==
    /\ fpc = "get"
    /\ ws.Client.Timeout > 0
    /\ UNCHANGED <<resp, body>>
    /\ Finish(TransportErrorReturn(variant, "Client.Timeout exceeded"),
              "transport")
    /\ UNCHANGED <<ws, clientArg, city, requests, ncalls>>
    /\ UNCHANGED fmtVars
    /\ UNCHANGED <<emojiVars, runVars>>

\* a mutation of the order: the body is read as soon as the response is
\* there, before the status is looked at
ResponseArrivesReadingBody ==
    /\ fpc = "get"
    /\ \E code \in StatusCodes, b \in Bodies :
         /\ resp' = [nil |-> FALSE, StatusCode |-> code, Body |-> b]
         /\ body' = [nil |-> FALSE, bytes |-> b]
    /\ fpc' = "status"
    /\ UNCHANGED <<ws, clientArg, city, requests, ncalls, ret>>
    /\ UNCHANGED fmtVars
    /\ UNCHANGED <<emojiVars, runVars>>

\* Client.Get returns a response
ResponseArrives ==
    /\ fpc = "get"
    /\ \E code \in StatusCodes, b \in Bodies :
         resp' = [nil |-> FALSE, StatusCode |-> code, Body |-> b]
    /\ fpc' = "status"
    /\ UNCHANGED <<ws, clientArg, city, body, requests, ncalls, ret>>
    /\ UNCHANGED fmtVars
    /\ UNCHANGED <<emojiVars, runVars>>

\* lines 102-104
CheckStatus ==
    /\ fpc = "status"
    /\ IF StatusPasses(resp.StatusCode)
       THEN /\ fpc' = "read"
            /\ UNCHANGED <<ret, resp, body>>
       ELSE /\ UNCHANGED <<resp, body>>
            /\ Finish(StatusErrorReturn(resp.StatusCode, city), "status")
    /\ UNCHANGED <<ws, clientArg, city, requests, ncalls>>
    /\ UNCHANGED fmtVars
    /\ UNCHANGED <<emojiVars, runVars>>

\* line 106: io.ReadAll returns the whole body
ReadCompletes ==
    /\ fpc = "read"
    /\ body' = [nil |-> FALSE, bytes |-> resp.Body]
    /\ fpc' = "decode"
    /\ UNCHANGED <<ws, clientArg, city, resp, requests, ncalls, ret>>
    /\ UNCHANGED fmtVars
    /\ UNCHANGED <<emojiVars, runVars>>

\* lines 106-109: io.ReadAll returns an error
ReadFails ==
    /\ fpc = "read"
    /\ UNCHANGED <<resp, body>>
    /\ Finish(ReadErrorReturn("unexpected EOF"), "read")
    /\ UNCHANGED <<ws, clientArg, city, requests, ncalls>>
    /\ UNCHANGED fmtVars
    /\ UNCHANGED <<emojiVars, runVars>>

\* Client.Timeout runs out while the body is read
ReadTimesOut ==
    /\ fpc = "read"
    /\ ws.Client.Timeout > 0
    /\ UNCHANGED <<resp, body>>
    /\ Finish(ReadErrorReturn("Client.Timeout exceeded"), "read")
    /\ UNCHANGED <<ws, clientArg, city, requests, ncalls>>
    /\ UNCHANGED fmtVars
    /\ UNCHANGED <<emojiVars, runVars>>

\* lines 111-116
Decode ==
    /\ fpc = "decode"
    /\ UNCHANGED <<resp, body>>
    /\ Finish(DecodeReturn(body.bytes),
              IF JsonUnmarshal(body.bytes).err.nil THEN "success" ELSE "decode")
    /\ UNCHANGED <<ws, clientArg, city, requests, ncalls>>
    /\ UNCHANGED fmtVars
    /\ UNCHANGED <<emojiVars, runVars>>

NextFetch ==
    \/ FetchCall
    \/ TransportFails
    \/ RequestTimesOut
    \/ ResponseArrives
    \/ CheckStatus
    \/ ReadCompletes
    \/ ReadFails
    \/ ReadTimesOut
    \/ Decode

SpecFetch == InitFetch /\ [][NextFetch]_vars

\* the program's own steps are taken when they can be, and an armed
\* Client.Timeout fires; the upstream owes nothing
FairSpecFetch ==
    /\ SpecFetch
    /\ WF_vars(CheckStatus)
    /\ WF_vars(Decode)
    /\ WF_vars(RequestTimesOut)
    /\ WF_vars(ReadTimesOut)

\* ================================================== claims C6 .. C10
\* the last finished call got a response / read its body
GotResponse == ~ret.nil /\ ~ret.resp.nil

ReadBody == GotResponse /\ ~ret.body.nil

\* C6: a call whose transport returned a status other than 200 fails with
\* exactly "API returned status <code> for city <city>", the received code
\* and the requested city, and returns no snapshot.
C6_StatusError ==
    (GotResponse /\ ret.resp.StatusCode # 200) =>
        /\ ret.err = [nil |-> FALSE,
                      format |-> "API returned status %d for city %s",
                      args |-> <<ret.resp.StatusCode, ret.city>>]
        /\ ret.weather.nil

\* the case of the test: status 400 for InvalidCity
C6_Witness ==
    /\ GotResponse
    /\ ret.resp.StatusCode = 400
    /\ ret.city = "InvalidCity"
    /\ ret.err.args = <<400, "InvalidCity">>

\* C7: a call that got status 200 and read a body that is no JSON, or JSON
\* of a type the schema does not admit, fails with an error whose message
\* starts "failed to parse weather data", and returns no snapshot.
C7_DecodeError ==
    (ReadBody /\ ret.resp.StatusCode = 200
              /\ ret.body.bytes.kind \in {"notJson", "wrongType"}) =>
        /\ ~ret.err.nil
        /\ ret.err.format = "failed to parse weather data: %w"
        /\ ret.weather.nil

\* the case of the test: status 200 with the body "invalid json"
C7_Witness ==
    /\ ReadBody
    /\ ret.resp.StatusCode = 200
    /\ ret.body.bytes.kind = "notJson"
    /\ ret.err.format = "failed to parse weather data: %w"

\* C8: a finished call returned either a snapshot and no error, or an error
\* and no snapshot; a snapshot comes back only after the transport answered,
\* the status was 200, the body was read and it decoded, and it is the
\* whole decoded value.
C8_SnapshotXorError ==
    ~ret.nil =>
        /\ ret.weather.nil # ret.err.nil
        /\ ~ret.weather.nil =>
             /\ ~ret.resp.nil
             /\ ret.resp.StatusCode = 200
             /\ ~ret.body.nil
             /\ ret.body.bytes.kind \in {"json", "emptyObject"}
             /\ ret.weather.val = ret.body.bytes.value

\* a call that returned a snapshot
C8_Witness ==
    /\ ~ret.nil
    /\ ~ret.weather.nil
    /\ ret.err.nil
    /\ ret.weather.val.Location.Name = "TestCity"

\* C9: every call entered has sent exactly one GET, for its own city,
\* whatever its outcome: the GETs sent are as many as the calls entered.
C9_OneGetPerCall ==
    /\ Len(requests) = ncalls
    /\ ncalls > 0 =>
         requests[ncalls] = Url(variant, ws.APIKey, IF fpc = "idle"
                                                    THEN ret.city ELSE city)

\* a failed call was followed by a second call for the same city, and both
\* sent their own GET
C9_Witness ==
    /\ ncalls = 2
    /\ fpc = "idle"
    /\ ~ret.nil
    /\ ~ret.err.nil
    /\ Len(requests) = 2
    /\ requests[1] = requests[2]

Running == fpc # "idle"

\* C10 as stated: every call of FetchWeatherData eventually returns.
C10_AsStated == Running ~> ~Running

\* C10 amended: a call through a service that NewWeatherService built from a
\* nil client (the refactored default, with its 10 second timeout) or from
\* a client with a non-zero Timeout eventually returns, also when the
\* upstream never answers.
C10_ReturnsUnderTimeout ==
    (Running /\ (clientArg.nil \/ clientArg.Timeout > 0)) ~> ~Running

\* a call through the default client that the timeout ended
C10_Witness ==
    /\ clientArg.nil
    /\ ~ret.nil
    /\ ret.resp.nil
    /\ ret.err.args = <<"Client.Timeout exceeded">>

\* ============================================== GetWeatherEmoji alone
\* (main.go 84-90, called as the tests of main_test.go 66-85 call it)
MaxPad == 2

\* runs of white space of up to MaxPad characters
WhitePads == UNION { [1..n -> WhiteSpace] : n \in 0..MaxPad }

\* condition texts without surrounding white space: the seven of the
\* table, the empty string, texts that differ from a table entry in letter
\* case or in the inner white space, and texts of no entry
ConditionCores ==
    { <<"Clear">>, <<"Sunny">>, <<"Patchy", " ", "rain">>,
      <<"Partly", " ", "cloudy">>, <<"Cloudy">>,
      <<"Patchy", " ", "rain", " ", "nearby">>, <<"Rainy">>,
      <<>>, <<"sunny">>, <<"CLEAR">>, <<"partly", " ", "cloudy">>,
      <<"Patchy", "\t", "rain">>, <<"Patchy", " ", " ", "rain">>,
      <<"Sunny", " ", "Clear">>, <<"Mist">>,
      <<"Non-simple", " ", "condition">> }

ConditionStrings ==
    { pre \o core \o post :
        pre \in WhitePads, core \in ConditionCores, post \in WhitePads }

InitEmoji ==
    /\ variant = "refactored"
    /\ FmtQuiet
    /\ FetchQuiet
    /\ RunQuiet
    /\ cond \in ConditionStrings
    /\ glyph = ""

CallGetWeatherEmoji ==
    /\ glyph = ""
    /\ glyph' = GetWeatherEmoji(cond)
    /\ UNCHANGED cond
    /\ UNCHANGED <<fmtVars, fetchVars, runVars>>

NextEmoji == CallGetWeatherEmoji

SpecEmoji == InitEmoji /\ [][NextEmoji]_vars

\* ================================== the entry points: main, weatherHandler
\* (main.go 197-229 refactored, 369-397 minimal, 467-538 original,
\* 633-676 HTTP)
MaxRequests == 2

RunVariants == {"refactored", "minimal", "original", "http"}

\* os.Args: empty, the program name alone, one argument (a city or the
\* empty string), two arguments
ArgLists ==
    { <<>>, <<"weather">>, <<"weather", "TestCity">>, <<"weather", "">>,
      <<"weather", "TestCity", "InvalidCity">> }

\* a mutation of the argument rule: the first element is taken
GetCityFromArgsFirst(args) ==
    IF Len(args) >= 1 THEN args[1] ELSE "Algiers"

\* lines 197-202 (Go's args[1] is the second element)
GetCityFromArgs(args) ==
    IF Len(args) >= 2 THEN args[2] ELSE "Algiers"

\* values of WEATHER_API_KEY: unset or set
EnvKeys == {"", "env-key"}

\* lines 208-211, 380-383: the key main goes on with
ApiKey(v, env) ==
    IF env # "" THEN env
    ELSE IF v = "refactored" THEN "demo-key" ELSE "YOUR_API_KEY_HERE"

\* the client main hands to NewWeatherService (lines 214, 385, 664)
MainClient(v) ==
    IF v = "refactored" THEN Nil ELSE HttpClient(DefaultTimeoutSeconds)

\* a snapshot with hourly entries, as the weather API sends them
HourlyWeather ==
    [Location |-> [Name |-> "TestCity", Country |-> "TestCountry"],
     Current |-> [TempC |-> 255, Condition |-> [Text |-> <<"Sunny">>]],
     Forecast |-> [Forecastday |-> <<[Hour |->
        <<[TimeEpoch |-> 3600, TempC |-> 150,
           Condition |-> [Text |-> <<"Cloudy">>], ChanceOfRain |-> 100],
          [TimeEpoch |-> 7200, TempC |-> 160,
           Condition |-> [Text |-> <<"Rainy", "\t">>],
           ChanceOfRain |-> 600]>>]>>]]

RunStatusCodes == {200, 400}

RunBodies == Bodies \cup {[kind |-> "json", value |-> HourlyWeather]}

\* what the upstream does with one GET sent through client: the transport
\* fails (or the client's timeout fires), or a response arrives whose body
\* then reads whole or breaks off
Replies(client) ==
    { [kind |-> "error", cause |-> c] :
        c \in {"dial tcp: no such host"} \cup
              (IF client.Timeout > 0 THEN {"Client.Timeout exceeded"} ELSE {}) }
    \cup
    { [kind |-> "response", StatusCode |-> code, Body |-> b, readErr |-> e] :
        code \in RunStatusCodes, b \in RunBodies,
        e \in {"", "unexpected EOF"} }

\* the replies that make a difference to a handler, which prints no hourly
\* line and whose fetch reads a body only after status 200
HandlerReplies(client) ==
    { r \in Replies(client) :
        r.kind = "response" =>
            /\ r.Body \in Bodies
            /\ r.StatusCode # 200 => r.readErr = "" }

\* FetchWeatherData of program v for city c, as one call, given what the
\* upstream does (lines 93-117, 283-307, 598-622)
FetchWeatherData(v, c, reply) ==
    IF reply.kind = "error" THEN TransportErrorReturn(v, reply.cause)
    ELSE IF ~StatusPasses(reply.StatusCode)
         THEN StatusErrorReturn(reply.StatusCode, c)
    ELSE IF reply.readErr # "" THEN ReadErrorReturn(reply.readErr)
    ELSE DecodeReturn(reply.Body)

\* FormatHourlyForecast as one call that samples now (lines 136-167); the
\* minimal one (lines 318-343) formats every entry
RECURSIVE FormatHourlyFrom(_, _, _, _, _)
FormatHourlyFrom(v, hs, i, offset, now) ==
    IF i > Len(hs) THEN <<>>
    ELSE (IF v = "refactored"
          THEN IF SkipsHour(hs[i], now) THEN <<>>
               ELSE <<[text |-> FormatHourLine(hs[i], offset), from |-> i]>>
          ELSE <<[text |-> FormatHourLineMin(hs[i], offset), from |-> i]>>)
         \o FormatHourlyFrom(v, hs, i + 1, offset, now)

FormatHourlyForecast(v, wd, offset, now) ==
    IF Len(wd.Forecast.Forecastday) = 0 THEN <<>>
    ELSE FormatHourlyFrom(v, wd.Forecast.Forecastday[1].Hour, 1, offset, now)

\* PrintForecast as one call that samples now (lines 170-194, 346-366):
\* what it writes after sink, having used hourIndex lines so far
RECURSIVE PrintFrom(_, _, _, _, _, _, _)
PrintFrom(v, sink, ls, hs, i, hourIndexSoFar, now) ==
    IF i > Len(hs) THEN sink
    ELSE IF SkipsHour(hs[i], now) \/ hourIndexSoFar >= Len(ls)
         THEN PrintFrom(v, sink, ls, hs, i + 1, hourIndexSoFar, now)
         ELSE PrintFrom(v,
                Fprintln(sink, ls[hourIndexSoFar + 1],
                         v = "refactored" /\ HighRain(hs[i])),
                ls, hs, i + 1, hourIndexSoFar + 1, now)

PrintForecast(v, sink, ls, wd, now) ==
    IF Len(wd.Forecast.Forecastday) = 0 THEN sink
    ELSE PrintFrom(v, sink, ls, wd.Forecast.Forecastday[1].Hour, 1, 0, now)

\* fmt.Sprintf / Printf of a format with its arguments, kept unrendered
Sprintf(format, args) == [format |-> format, args |-> args]

\* fmt.Println(text), fmt.Printf(text) to the process output
Println(sink, text) == Fprintln(sink, [text |-> text, from |-> 0], FALSE)

\* lines 222-228, 393-396: what main prints after a successful fetch, the
\* two passes sampling the clock at nowF and nowP
MainOutput(v, wd, offset, nowF, nowP) ==
    LET current == Println(<<>>, IF v = "refactored"
                                 THEN FormatCurrentWeather(wd)
                                 ELSE FormatCurrentWeatherMin(wd))
        spaced  == IF v = "refactored"
                   THEN Println(current, Sprintf("", <<>>))
                   ELSE current
    IN  PrintForecast(v, spaced, FormatHourlyForecast(v, wd, offset, nowF),
                      wd, nowP)

\* the original loop (lines 510-537) from entry i on, entry k compared
\* against its own reading nows[k]
RECURSIVE OriginalLoop(_, _, _, _, _)
OriginalLoop(sink, hs, i, offset, nows) ==
    IF i > Len(hs) THEN sink
    ELSE OriginalLoop(
           IF SkipsHour(hs[i], nows[i]) THEN sink
           ELSE Fprintln(sink,
                  [text |-> FormatHourLineOrig(hs[i], offset), from |-> i],
                  HighRain(hs[i])),
           hs, i + 1, offset, nows)

\* non-decreasing clock readings, one per entry
ClockReadings(n) ==
    { nows \in [1..n -> ClockValues] :
        \A j, k \in 1..n : j < k => nows[j] <= nows[k] }

InitRun ==
    /\ variant \in RunVariants
    /\ FmtQuiet
    /\ EmojiQuiet
    /\ clientArg = Nil
    /\ ws = IF variant = "http"
            THEN NewWeatherService("http", "demo-key",
                                   HttpClient(DefaultTimeoutSeconds))
            ELSE Nil
    /\ fpc = "idle"
    /\ city = ""
    /\ resp = Nil
    /\ body = Nil
    /\ requests = <<>>
    /\ ncalls = 0
    /\ ret = Nil
    /\ osArgs \in IF variant = "http" THEN {<<"server">>} ELSE ArgLists
    /\ mpc = IF variant = "http" THEN "serve" ELSE "start"
    /\ printed = <<>>
    /\ exit = NoExit
    /\ handlers = IF variant = "http"
                  THEN [i \in 1..MaxRequests |->
                          [pc |-> "idle", query |-> Nil, city |-> "",
                           reply |-> Nil, result |-> Nil, out |-> <<>>]]
                  ELSE <<>>

\* lines 205-216, 377-387: main up to the GET that FetchWeatherData sends
MainStart ==
    /\ variant \in {"refactored", "minimal"}
    /\ mpc = "start"
    /\ \E env \in EnvKeys :
         ws' = NewWeatherService(variant, ApiKey(variant, env),
                                 MainClient(variant))
    /\ city' = GetCityFromArgs(osArgs)
    /\ requests' = IssueGet(requests, Url(variant, ws'.APIKey, city'))
    /\ mpc' = "fetch"
    /\ UNCHANGED <<clientArg, fpc, resp, body, ncalls, ret>>
    /\ UNCHANGED <<osArgs, printed, exit, handlers>>
    /\ UNCHANGED <<fmtVars, emojiVars>>

\* lines 216-229, 387-397: FetchWeatherData returns, main prints and ends
MainFinish ==
    /\ variant \in {"refactored", "minimal"}
    /\ mpc = "fetch"
    /\ \E reply \in Replies(ws.Client), nowF \in ClockValues,
          nowP \in ClockValues :
         /\ nowF <= nowP
         /\ ret' = [nil |-> FALSE, city |-> city, reply |-> reply]
         /\ LET r == FetchWeatherData(variant, city, reply)
            IN  IF ~r.err.nil
                THEN /\ printed' = Println(printed,
                                           Sprintf("Error: %v\n", <<r.err>>))
                     /\ exit' = 1
                ELSE /\ printed' = MainOutput(variant, r.weather.val, loc,
                                              nowF, nowP)
                     /\ exit' = 0
    /\ mpc' = "exited"
    /\ UNCHANGED <<ws, clientArg, fpc, city, resp, body, requests, ncalls>>
    /\ UNCHANGED <<osArgs, handlers>>
    /\ UNCHANGED <<fmtVars, emojiVars>>

\* lines 467-472: the original main up to its http.Get
OriginalMainStart ==
    /\ variant = "original"
    /\ mpc = "start"
    /\ city' = IF Len(osArgs) >= 2 THEN osArgs[2] ELSE "Algiers"
    /\ requests' = IssueGet(requests,
                            [key |-> "demo-key", q |-> city', days |-> 1,
                             query |-> "&aqi=no&alerts=no"])
    /\ mpc' = "fetch"
    /\ UNCHANGED <<ws, clientArg, fpc, resp, body, ncalls, ret>>
    /\ UNCHANGED <<osArgs, printed, exit, handlers>>
    /\ UNCHANGED <<fmtVars, emojiVars>>

\* lines 474-494: the panic the original main ends in, if any
OriginalPanic(c, reply) ==
    IF reply.kind = "error"
    THEN [panics |-> TRUE, value |-> Sprintf("%v", <<reply.cause>>)]
    ELSE IF reply.StatusCode # 200
    THEN [panics |-> TRUE,
          value |-> Sprintf("Sorry, couldn't get weather for%s", <<c>>)]
    ELSE IF reply.readErr # ""
    THEN [panics |-> TRUE, value |-> Sprintf("%v", <<reply.readErr>>)]
    ELSE IF ~JsonUnmarshal(reply.Body).err.nil
    THEN [panics |-> TRUE,
          value |-> Sprintf("%v", <<JsonUnmarshal(reply.Body).err>>)]
    ELSE IF Len(JsonUnmarshal(reply.Body).weather.Forecast.Forecastday) = 0
    THEN [panics |-> TRUE,
          value |-> Sprintf("runtime error: index out of range [%d] with length %d",
                            <<0, 0>>)]
    ELSE [panics |-> FALSE, value |-> Sprintf("", <<>>)]

\* lines 472-538: http.Get returns, the rest of the original main; an
\* unrecovered panic prints its value and ends the process with status 2
OriginalMainFinish ==
    /\ variant = "original"
    /\ mpc = "fetch"
    /\ \E reply \in Replies(HttpClient(0)) :
         /\ ret' = [nil |-> FALSE, city |-> city, reply |-> reply]
         /\ IF OriginalPanic(city, reply).panics
            THEN /\ printed' = Println(printed,
                       Sprintf("panic: %v", <<OriginalPanic(city, reply).value>>))
                 /\ exit' = 2
            ELSE LET wd == JsonUnmarshal(reply.Body).weather
                     hs == wd.Forecast.Forecastday[1].Hour
                 IN  /\ \E nows \in ClockReadings(Len(hs)) :
                          printed' = OriginalLoop(
                              Println(printed, FormatCurrentOrig(wd)),
                              hs, 1, loc, nows)
                     /\ exit' = 0
    /\ mpc' = "exited"
    /\ UNCHANGED <<ws, clientArg, fpc, city, resp, body, requests, ncalls>>
    /\ UNCHANGED <<osArgs, handlers>>
    /\ UNCHANGED <<fmtVars, emojiVars>>

\* ---- the HTTP program: weatherHandler (lines 633-652)
\* the query of a request: no city parameter, an empty one, a city
Queries ==
    { [present |-> FALSE, value |-> ""], [present |-> TRUE, value |-> ""],
      [present |-> TRUE, value |-> "TestCity"] }

\* r.URL.Query().Get("city")
QueryGet(q) == IF q.present THEN q.value ELSE ""

\* lines 635-638
HandlerCity(q) == IF QueryGet(q) = "" THEN "Algiers" ELSE QueryGet(q)

\* HTTP FormatCurrentWeather (lines 625-630): "%s, %s: %.1fÂ°C, %s"
FormatCurrentWeatherHttp(wd) ==
    [name |-> wd.Location.Name, country |-> wd.Location.Country,
     temp |-> FmtF1(wd.Current.TempC), unit |-> "Â°C",
     condition |-> wd.Current.Condition.Text]

\* a mutation of the handler's answer: the error goes out as JSON too
HandlerResponseErrorAsJson(r) ==
    <<[status |-> 200, contentType |-> "application/json",
       body |-> IF ~r.err.nil
                THEN [weather |-> Sprintf("Error fetching weather: %v",
                                          <<r.err>>)]
                ELSE [weather |-> FormatCurrentWeatherHttp(r.weather.val)]]>>

\* lines 642-651: what the handler writes to its ResponseWriter, given what
\* FetchWeatherData returned
HandlerResponse(r) ==
    IF ~r.err.nil
    THEN <<[status |-> 500, contentType |-> "text/plain; charset=utf-8",
            body |-> Sprintf("Error fetching weather: %v", <<r.err>>)]>>
    ELSE <<[status |-> 200, contentType |-> "application/json",
            body |-> [weather |-> FormatCurrentWeatherHttp(r.weather.val)]]>>

\* lines 635-641, 599-601: a request arrives; its handler picks the city
\* and sends its GET (requests are numbered in the order they arrive)
HandlerStart ==
    /\ variant = "http"
    /\ \E i \in DOMAIN handlers, q \in Queries :
         /\ handlers[i].pc = "idle"
         /\ \A j \in 1..(i - 1) : handlers[j].pc # "idle"
         /\ handlers' = [handlers EXCEPT ![i] =
                [@ EXCEPT !.pc = "get", !.query = q, !.city = HandlerCity(q)]]
         /\ requests' = IssueGet(requests,
                                 Url("http", ws.APIKey, HandlerCity(q)))
    /\ UNCHANGED <<ws, clientArg, fpc, city, resp, body, ncalls, ret>>
    /\ UNCHANGED <<osArgs, mpc, printed, exit>>
    /\ UNCHANGED <<fmtVars, emojiVars>>

\* a mutation of the handler: weather and err are package-level variables,
\* so a returning fetch also overwrites what a handler about to answer holds
HandlerFetchReturnsShared ==
    /\ variant = "http"
    /\ \E i \in DOMAIN handlers, reply \in HandlerReplies(ws.Client) :
         /\ handlers[i].pc = "get"
         /\ LET r == FetchWeatherData("http", handlers[i].city, reply)
            IN  handlers' = [j \in DOMAIN handlers |->
                  IF j = i
                  THEN [handlers[j] EXCEPT !.pc = "respond",
                                           !.reply = reply, !.result = r]
                  ELSE IF handlers[j].pc = "respond"
                       THEN [handlers[j] EXCEPT !.result = r]
                       ELSE handlers[j]]
    /\ UNCHANGED fetchVars
    /\ UNCHANGED <<osArgs, mpc, printed, exit>>
    /\ UNCHANGED <<fmtVars, emojiVars>>

\* lines 641, 601-621: the upstream replies and FetchWeatherData returns
\* into the handler's own weather, err
HandlerFetchReturns ==
    /\ variant = "http"
    /\ \E i \in DOMAIN handlers, reply \in HandlerReplies(ws.Client) :
         /\ handlers[i].pc = "get"
         /\ handlers' = [handlers EXCEPT ![i] =
                [@ EXCEPT !.pc = "respond", !.reply = reply,
                          !.result = FetchWeatherData("http", handlers[i].city,
                                                     reply)]]
    /\ UNCHANGED fetchVars
    /\ UNCHANGED <<osArgs, mpc, printed, exit>>
    /\ UNCHANGED <<fmtVars, emojiVars>>

\* lines 642-652: the handler answers and returns
HandlerRespond ==
    /\ variant = "http"
    /\ \E i \in DOMAIN handlers :
         /\ handlers[i].pc = "respond"
         /\ handlers' = [handlers EXCEPT ![i] =
                [@ EXCEPT !.pc = "done",
                          !.out = HandlerResponse(handlers[i].result)]]
    /\ UNCHANGED fetchVars
    /\ UNCHANGED <<osArgs, mpc, printed, exit>>
    /\ UNCHANGED <<fmtVars, emojiVars>>

NextRun ==
    \/ MainStart
    \/ MainFinish
    \/ OriginalMainStart
    \/ OriginalMainFinish
    \/ HandlerStart
    \/ HandlerFetchReturns
    \/ HandlerRespond

SpecRun == InitRun /\ [][NextRun]_vars

\* ================================================== claims C11 .. C20
\* C11: in every pass that filters by time (the refactored
\* FormatHourlyForecast, both PrintForecast, the loop of the original main)
\* an entry passes the filter if and only if its instant is not strictly
\* before the now it is compared against: an entry on that very instant is
\* kept, an entry one tick in the past is discarded.
C11_KeepsIffNotPast ==
    [][(pc \in {"format", "print", "printMin", "original"} /\ idx' = idx + 1) =>
         LET now == cutoffs'[Len(cutoffs')]
             up  == Upcoming(Hours[idx], now)
         IN  /\ pc = "format" => ((Len(forecasts') = Len(forecasts) + 1) <=> up)
             /\ pc = "original" => ((Len(w') = Len(w) + 1) <=> up)
             /\ pc \in {"print", "printMin"} =>
                   /\ ~up => w' = w
                   /\ hourIndex < Len(lines) =>
                        ((Len(w') = Len(w) + 1) <=> up)]_vars

\* a formatting pass that dropped an entry of the past and kept the entry
\* whose instant is the sampled now
C11_Witness ==
    /\ pc = "format"
    /\ Len(forecasts) < idx - 1
    /\ \E j \in DOMAIN forecasts :
         TimeUnix(Hours[forecasts[j].from].TimeEpoch) = currentTime

\* the glyph the table of main.go 52-60 gives each of its seven strings
DocumentedGlyphs ==
    (<<"Clear">> :> "Sun") @@
    (<<"Sunny">> :> "Sun") @@
    (<<"Patchy", " ", "rain">> :> "CloudWithRain") @@
    (<<"Partly", " ", "cloudy">> :> "SunBehindCloud") @@
    (<<"Cloudy">> :> "Cloud") @@
    (<<"Patchy", " ", "rain", " ", "nearby">> :> "CloudWithRain") @@
    (<<"Rainy">> :> "CloudWithRain")

\* the table strings a text is, up to white space before and after it
TableStringsOf(text) ==
    { k \in DOMAIN DocumentedGlyphs :
        \E pre \in WhitePads, post \in WhitePads : text = pre \o k \o post }

\* C12: GetWeatherEmoji returns the glyph the table documents for a table
\* string, whatever white space stands before and after it, and the cloud
\* glyph for every other text: the empty string, a text that is all white
\* space, a table string in another letter case or with other inner white
\* space, a text of no entry.
C12_GlyphOfCondition ==
    glyph # "" =>
        /\ \A k \in TableStringsOf(cond) : glyph = DocumentedGlyphs[k]
        /\ TableStringsOf(cond) = {} => glyph = "Cloud"

\* "Patchy rain" between a space and a tab got the rain glyph
C12_Witness ==
    /\ cond = <<" ", "Patchy", " ", "rain", "\t">>
    /\ glyph = "CloudWithRain"

\* C13 as stated: on a snapshot whose forecast day list is empty, hourly
\* formatting returns the empty sequence, presentation writes nothing, and
\* neither crashes: no pass over such a snapshot ends in a panic.
C13_EmptyDayListHandled ==
    ~HasDay =>
      \A k \in DOMAIN returned :
        /\ returned[k].fn = "FormatHourlyForecast" => returned[k].out = <<>>
        /\ returned[k].fn = "PrintForecast" => returned[k].w = <<>>
        /\ returned[k].fn = "main" => ~returned[k].panic

\* C14: no step of FormatCurrentWeather, FormatHourlyForecast or
\* PrintForecast (nor of the original main's loop) changes the snapshot:
\* after any sequence of calls it holds the entries, field values and order
\* it was handed over with.
C14_SnapshotUnchanged == [][weather' = weather]_vars

\* a formatting call that dropped an entry and a printing call that wrote
\* a line have both returned
C14_Witness ==
    /\ \E k \in ReturnsOf("FormatHourlyForecast") :
         /\ returned[k].out # <<>>
         /\ Len(returned[k].out) < Len(DayHours)
    /\ \E k \in ReturnsOf("PrintForecast") : returned[k].w # <<>>

\* the upstream's answer makes the fetch or the parse fail
FetchFails(reply) ==
    IF reply.kind = "error" THEN TRUE
    ELSE \/ reply.StatusCode # 200
         \/ reply.readErr # ""
         \/ reply.Body.kind \in {"notJson", "wrongType"}

\* a printed entry is an error report / a line of formatted weather
IsErrorMessage(e) ==
    /\ "format" \in DOMAIN e.line.text
    /\ e.line.text.format \in {"Error: %v\n", "panic: %v"}

IsWeatherLine(e) == "condition" \in DOMAIN e.line.text

\* C15 as stated: a command-line run that has ended has exit status 1 and
\* has printed an error message and no weather line when the fetch or the
\* parse failed, and has exit status 0 and has printed the formatted
\* current weather of the decoded snapshot, and no error, when they
\* succeeded.
C15_ExitCodes ==
    (variant # "http" /\ mpc = "exited") =>
        IF FetchFails(ret.reply)
        THEN /\ exit = 1
             /\ \E k \in DOMAIN printed : IsErrorMessage(printed[k])
             /\ \A k \in DOMAIN printed : ~IsWeatherLine(printed[k])
        ELSE /\ exit = 0
             /\ printed # <<>>
             /\ IsWeatherLine(printed[1])
             /\ printed[1].line.text.name = ret.reply.Body.value.Location.Name
             /\ \A k \in DOMAIN printed : ~IsErrorMessage(printed[k])

\* the requests whose handler has answered and returned
Done == { i \in DOMAIN handlers : handlers[i].pc = "done" }

\* C16: a handler that has returned has written exactly one answer: when
\* the fetch failed for any reason (transport, status, read, decode) it is
\* status 500 with the plain-text body "Error fetching weather: <err>" and
\* no JSON; when the fetch succeeded it is the JSON object whose only
\* member "weather" is the formatted current line of the decoded snapshot.
\* A handler that has not answered yet has written nothing.
C16_OneOfTwoAnswers ==
    \A i \in DOMAIN handlers :
        LET h == handlers[i]
        IN  IF i \notin Done THEN h.out = <<>>
            ELSE /\ Len(h.out) = 1
                 /\ IF FetchFails(h.reply)
                    THEN /\ h.out[1].status = 500
                         /\ h.out[1].contentType = "text/plain; charset=utf-8"
                         /\ ~h.result.err.nil
                         /\ h.out[1].body =
                              [format |-> "Error fetching weather: %v",
                               args |-> <<h.result.err>>]
                    ELSE /\ h.out[1].status = 200
                         /\ h.out[1].contentType = "application/json"
                         /\ DOMAIN h.out[1].body = {"weather"}
                         /\ h.out[1].body.weather =
                              FormatCurrentWeatherHttp(h.reply.Body.value)

\* one request was answered with 500 after a status error and another
\* with the JSON weather line
C16_Witness ==
    \E i, j \in Done :
        /\ handlers[i].out[1].status = 500
        /\ handlers[i].reply.kind = "response"
        /\ handlers[i].reply.StatusCode = 400
        /\ handlers[j].out[1].status = 200
        /\ handlers[j].out[1].body.weather.name = "TestCity"

\* the city a request asks for: its city parameter, "Algiers" without one
OwnCity(h) ==
    IF h.query.present /\ h.query.value # "" THEN h.query.value ELSE "Algiers"

\* C17: in every interleaving of the handlers of concurrent requests, the
\* GET a handler sent is for its own request's city, what its fetch returned
\* and what it answered are those that its own city and the upstream's
\* reply to its own GET determine, and the shared service (API key and
\* client) is what main initialised it to.
C17_RequestsIndependent ==
    variant = "http" =>
        /\ ws = NewWeatherService("http", "demo-key",
                                  HttpClient(DefaultTimeoutSeconds))
        /\ Len(requests) =
             Cardinality({ i \in DOMAIN handlers : handlers[i].pc # "idle" })
        /\ \A i \in DOMAIN handlers :
             LET h == handlers[i]
             IN  /\ h.pc # "idle" =>
                       /\ h.city = OwnCity(h)
                       /\ requests[i] = Url("http", "demo-key", OwnCity(h))
                 /\ h.pc \in {"respond", "done"} =>
                       h.result = FetchWeatherData("http", OwnCity(h), h.reply)
                 /\ h.pc = "done" =>
                       h.out = HandlerResponse(
                                 FetchWeatherData("http", OwnCity(h), h.reply))

\* two requests for different cities are in their handlers at once, the
\* fetch of one has failed and the fetch of the other has succeeded, and
\* neither has answered yet
C17_Witness ==
    \E i, j \in DOMAIN handlers :
        /\ handlers[i].pc = "respond"
        /\ handlers[j].pc = "respond"
        /\ handlers[i].city # handlers[j].city
        /\ ~handlers[i].result.err.nil
        /\ handlers[j].result.err.nil

\* C18: a command-line run asks for the second element of os.Args when
\* there are at least two and for "Algiers" otherwise, also when os.Args is
\* empty; a /weather request asks for its city parameter and for "Algiers"
\* when the parameter is missing or empty.  The city is the one the GET is
\* sent for.
C18_DefaultCity ==
    /\ (variant # "http" /\ mpc # "start") =>
          LET c == IF Len(osArgs) >= 2 THEN osArgs[2] ELSE "Algiers"
          IN  /\ city = c
              /\ Len(requests) = 1
              /\ requests[1].q = c
    /\ variant = "http" =>
          \A i \in DOMAIN handlers :
              handlers[i].pc # "idle" =>
                  LET q == handlers[i].query
                      c == IF ~q.present \/ q.value = ""
                           THEN "Algiers" ELSE q.value
                  IN  /\ handlers[i].city = c
                      /\ requests[i].q = c

\* a run of the refactored main with an empty os.Args has fetched for
\* "Algiers" and ended
C18_Witness ==
    /\ variant = "refactored"
    /\ osArgs = <<>>
    /\ mpc = "exited"
    /\ city = "Algiers"
    /\ requests[1].q = "Algiers"

\* C19: what a finished FetchWeatherData call reports is decided by the
\* first failure in the order transport, status, read, decode: without a
\* response it is the network error; with a response of a status other
\* than 200 it is the status error and the body was never read, whatever
\* the body is; with status 200 and a failed read it is the read error;
\* with a body read it is the decode error when the body does not decode
\* and success when it does.
C19_FirstFailureReported ==
    ~ret.nil =>
        IF ret.resp.nil
        THEN /\ ret.ended = "transport"
             /\ ret.err.format \in {"failed to fetch weather data: %w",
                                    "failed to fetch data: %w"}
             /\ ret.body.nil
        ELSE IF ret.resp.StatusCode # 200
        THEN /\ ret.ended = "status"
             /\ ret.err.format = "API returned status %d for city %s"
             /\ ret.body.nil
        ELSE IF ret.body.nil
        THEN /\ ret.ended = "read"
             /\ ret.err.format = "failed to read response body: %w"
        ELSE IF ret.body.bytes.kind \in {"notJson", "wrongType"}
        THEN /\ ret.ended = "decode"
             /\ ret.err.format = "failed to parse weather data: %w"
        ELSE /\ ret.ended = "success"
             /\ ret.err.nil

\* a response of status 500 whose body is no JSON ended in the status
\* error, its body unread
C19_Witness ==
    /\ ~ret.nil
    /\ ~ret.resp.nil
    /\ ret.resp.StatusCode = 500
    /\ ret.resp.Body.kind = "notJson"
    /\ ret.ended = "status"
    /\ ret.body.nil

Min(a, b) == IF a < b THEN a ELSE b

\* C20: PrintForecast, called with any list of lines on any snapshot, reads
\* the list only inside its bounds: each write appends the line at position
\* hourIndex + 1, which exists, and hourIndex never passes the length of
\* the list.  What a call wrote when it returns are the first
\* min(number of lines, number of upcoming entries) lines of the list, in
\* their order (nothing on an empty day list).
C20_PrintsFirstLines ==
    /\ [](/\ pc \in {"print", "printMin"} =>
               /\ hourIndex <= Len(lines)
               /\ Len(w) = hourIndex
          /\ \A k \in ReturnsOf("PrintForecast") :
               LET r == returned[k]
               IN  /\ Len(r.w) = Min(Len(r.lines),
                                     Len(UpcomingIndices(r.now)))
                   /\ [j \in DOMAIN r.w |-> r.w[j].line] =
                        SubSeq(r.lines, 1, Len(r.w)))
    /\ [][(pc \in {"print", "printMin"} /\ w' # w /\ pc' = pc) =>
             /\ hourIndex + 1 \in DOMAIN lines
             /\ w'[Len(w')].line = lines[hourIndex + 1]
             /\ Len(w') = Len(w) + 1]_vars

\* a call given more lines than there are upcoming entries wrote the first
\* of them only, having skipped an entry of the past
C20_Witness ==
    \E k \in ReturnsOf("PrintForecast") :
        /\ returned[k].w # <<>>
        /\ Len(returned[k].w) < Len(returned[k].lines)
        /\ Len(returned[k].w) < Len(DayHours)

====
